---- MODULE Spec2Model ----
(***************************************************************************)
(* Model of the two scripts of Basic_Thermal_Optimizers:                   *)
(*   Aday_Enclosure_Point_Source_Optimization.py  ("enclosure")            *)
(*   Aday_Heat_Sink_Optimizer.py                  ("heat_sink")            *)
(*                                                                         *)
(* Numbers.  The scripts compute in Python/numpy floats (IEEE-754 binary   *)
(* floating point, round to nearest, ties to even).  A float is modelled   *)
(* as the record [cls, m, e]:                                              *)
(*   cls = "fin": the value m * 2^e, with m = 0 and e = 0 for zero and     *)
(*              2^(Prec-1) <= |m| < 2^Prec otherwise;                      *)
(*   cls = "inf": an infinity of sign m;   cls = "nan": not a number.      *)
(* Every operation returns the correctly rounded result, as IEEE-754       *)
(* requires of + - * / sqrt.  Prec is the number of significand bits:      *)
(* binary64 has 53, the model keeps Prec of them so that the arithmetic    *)
(* stays inside TLC's integers.  The exponent is unbounded (no overflow    *)
(* to infinity and no underflow).                                          *)
(***************************************************************************)
EXTENDS Integers, Sequences, FiniteSets, TLC

\* significand bits of the modelled floating-point format
Prec == 14

----------------------------------------------------------------------------
(* Floating point                                                          *)

Fin(m, e) == [cls |-> "fin", m |-> m, e |-> e]
Zero == Fin(0, 0)
Inf(s) == [cls |-> "inf", m |-> s, e |-> 0]
NaN == [cls |-> "nan", m |-> 0, e |-> 0]

Sgn(n) == IF n < 0 THEN -1 ELSE IF n = 0 THEN 0 ELSE 1
Mag(n) == IF n < 0 THEN -n ELSE n

RECURSIVE BitLen(_)
BitLen(n) == IF n = 0 THEN 0 ELSE 1 + BitLen(n \div 2)

\* The float nearest to s * (n + d) * 2^e, where s is the sign, n >= 0 and
\* 0 < d < 1 if sticky, d = 0 otherwise: round to nearest, ties to even.
Round(s, n, e, sticky) ==
    IF n = 0 THEN Zero
    ELSE LET b == BitLen(n) IN
         IF b <= Prec
         THEN Fin(s * n * 2^(Prec - b), e - (Prec - b))
         ELSE LET sh == b - Prec
                  q == n \div 2^sh
                  r == n % 2^sh
                  half == 2^(sh - 1)
                  up == r > half \/ (r = half /\ (sticky \/ q % 2 = 1))
                  q1 == IF up THEN q + 1 ELSE q
              IN IF q1 = 2^Prec THEN Fin(s * 2^(Prec - 1), e + sh + 1)
                                ELSE Fin(s * q1, e + sh)

FromInt(n) == Round(Sgn(n), Mag(n), 0, FALSE)

\* Long division: quotient bits of (q + r/d) * 2^e until q has Prec + 2 bits.
RECURSIVE DivLoop(_, _, _, _)
DivLoop(q, r, d, e) ==
    IF q >= 2^(Prec + 1) THEN [q |-> q, r |-> r, e |-> e]
    ELSE IF r >= d - r THEN DivLoop(2 * q + 1, r - (d - r), d, e - 1)
                       ELSE DivLoop(2 * q, r + r, d, e - 1)

\* A decimal literal num/den (num, den > 0), converted as Python converts it:
\* to the nearest float.
Lit(num, den) ==
    LET x == DivLoop(num \div den, num % den, den, 0)
    IN Round(1, x.q, x.e, x.r # 0)

FNeg(a) == [a EXCEPT !.m = -a.m]
FAbs(a) == [a EXCEPT !.m = Mag(a.m)]

\* n shifted right by d bits, a lost 1 bit kept in the last place
ShiftJam(n, d) ==
    LET q == n \div 2^d
    IN IF n % 2^d # 0 /\ q % 2 = 0 THEN q + 1 ELSE q

FAddFin(a, b) ==
    IF a.m = 0 THEN b
    ELSE IF b.m = 0 THEN a
    ELSE LET hi == IF a.e >= b.e THEN a ELSE b
             lo == IF a.e >= b.e THEN b ELSE a
             d == hi.e - lo.e
             A == Mag(hi.m) * 8
             B == IF d > Prec + 3 THEN 1 ELSE ShiftJam(Mag(lo.m) * 8, d)
             n == Sgn(hi.m) * A + Sgn(lo.m) * B
         IN Round(Sgn(n), Mag(n), hi.e - 3, FALSE)

FAdd(a, b) ==
    IF a.cls = "nan" \/ b.cls = "nan" THEN NaN
    ELSE IF a.cls = "inf" /\ b.cls = "inf" THEN (IF a.m = b.m THEN a ELSE NaN)
    ELSE IF a.cls = "inf" THEN a
    ELSE IF b.cls = "inf" THEN b
    ELSE FAddFin(a, b)

FSub(a, b) == FAdd(a, FNeg(b))

FMul(a, b) ==
    IF a.cls = "nan" \/ b.cls = "nan" THEN NaN
    ELSE IF a.cls = "inf" \/ b.cls = "inf"
         THEN (IF a.m = 0 \/ b.m = 0 THEN NaN ELSE Inf(Sgn(a.m) * Sgn(b.m)))
    ELSE Round(Sgn(a.m) * Sgn(b.m), Mag(a.m) * Mag(b.m), a.e + b.e, FALSE)

\* numpy's float64 division: x/0 is an infinity (0/0 a nan), not an exception
FDiv(a, b) ==
    IF a.cls = "nan" \/ b.cls = "nan" THEN NaN
    ELSE IF a.cls = "inf" THEN (IF b.cls = "inf" THEN NaN
                              ELSE Inf(a.m * (IF b.m < 0 THEN -1 ELSE 1)))
    ELSE IF b.cls = "inf" THEN Zero
    ELSE IF b.m = 0 THEN (IF a.m = 0 THEN NaN ELSE Inf(Sgn(a.m)))
    ELSE IF a.m = 0 THEN Zero
    ELSE LET x == DivLoop(Mag(a.m) \div Mag(b.m), Mag(a.m) % Mag(b.m),
                          Mag(b.m), a.e - b.e)
         IN Round(Sgn(a.m) * Sgn(b.m), x.q, x.e, x.r # 0)

\* floor(sqrt(n)) by bisection: lo*lo <= n < hi*hi
RECURSIVE ISqrt(_, _, _)
ISqrt(n, lo, hi) ==
    IF hi - lo <= 1 THEN lo
    ELSE LET mid == (lo + hi) \div 2
         IN IF mid * mid <= n THEN ISqrt(n, mid, hi) ELSE ISqrt(n, lo, mid)

\* Square root digit by digit: r = floor(sqrt(X)), rem = X - r*r for the
\* value sqrt(X) * 2^e, until r has Prec + 2 bits.
RECURSIVE SqrtLoop(_, _, _)
SqrtLoop(r, rem, e) ==
    IF r >= 2^(Prec + 1) THEN [q |-> r, r |-> rem, e |-> e]
    ELSE IF 4 * rem >= 4 * r + 1
         THEN SqrtLoop(2 * r + 1, 4 * rem - (4 * r + 1), e - 1)
         ELSE SqrtLoop(2 * r, 4 * rem, e - 1)

FSqrt(a) ==
    IF a.cls = "nan" THEN NaN
    ELSE IF a.m < 0 THEN NaN
    ELSE IF a.cls = "inf" THEN a
    ELSE IF a.m = 0 THEN Zero
    ELSE LET odd == (a.e % 2) # 0
             X == IF odd THEN 2 * a.m ELSE a.m
             e2 == IF odd THEN (a.e - 1) \div 2 ELSE a.e \div 2
             r0 == ISqrt(X, 0, 2^(Prec \div 2 + 1))
             x == SqrtLoop(r0, X - r0 * r0, e2)
         IN Round(1, x.q, x.e, x.r # 0)

\* a < b, a <= b for floats (false when either is a nan)
FLt(a, b) ==
    IF a.cls = "nan" \/ b.cls = "nan" THEN FALSE
    ELSE IF a.cls = "inf" \/ b.cls = "inf"
         THEN (IF a.cls = "inf" /\ b.cls = "inf" THEN a.m < b.m
               ELSE IF a.cls = "inf" THEN a.m < 0 ELSE b.m > 0)
    ELSE IF Sgn(a.m) # Sgn(b.m) THEN Sgn(a.m) < Sgn(b.m)
    ELSE IF a.m = 0 THEN FALSE
    ELSE IF a.m > 0 THEN a.e < b.e \/ (a.e = b.e /\ a.m < b.m)
    ELSE a.e > b.e \/ (a.e = b.e /\ a.m < b.m)

FLe(a, b) == FLt(a, b) \/ (a.cls # "nan" /\ a = b)

----------------------------------------------------------------------------
(* State                                                                   *)

VARIABLES
    script,          \* which script runs: "enclosure" or "heat_sink"
    libs,            \* whether numpy and scipy can be imported
    pc,              \* the script's next top-level statement
    bound,           \* the names bound in the module's globals and builtins
    stdout,          \* the lines printed so far
    stderr,          \* what the interpreter wrote to stderr on exit
    exit_code,       \* the process's exit status, -1 while it runs
    minimize_calls,  \* the calls of scipy.optimize.minimize so far
    result,          \* what minimize returned (a sequence of at most one)
    frame,           \* activation of objective_function /
                     \* calculate_average_temperature
    frame2,          \* a second activation, evaluated side by side with
                     \* frame on other wall_thickness and flow_rate
    calls,           \* the last two activations of temperature_at_point,
                     \* latest first
    sink             \* the last two evaluations of the heat sink's
                     \* resistance network, latest first

vars == <<script, libs, pc, bound, stdout, stderr, exit_code, minimize_calls,
          result, frame, frame2, calls, sink>>

----------------------------------------------------------------------------
(* Aday_Enclosure_Point_Source_Optimization.py                             *)

\* k = 0.02 (the name k is the loop variable of line 47 elsewhere)
k == Lit(2, 100)
time_interval == 3600
\* np.pi = 3.141592653589793 = (1686629713 + d) * 2^-29, 0 < d < 1
np_pi == Round(1, 1686629713, -29, TRUE)

\* line 27: np.sqrt((x - source_x)**2 + (y - source_y)**2 + (z - source_z)**2)
distance_from_source(x, y, z, source_position) ==
    LET dx == FSub(x, source_position[1])
        dy == FSub(y, source_position[2])
        dz == FSub(z, source_position[3])
    IN FSqrt(FAdd(FAdd(FMul(dx, dx), FMul(dy, dy)), FMul(dz, dz)))

\* mutant: the zero distance is not replaced
floor_distance_absent(distance) == distance

\* mutant: the zero distance is replaced by 0.1
floor_distance_coarse(distance) ==
    IF distance = Zero THEN Lit(1, 10) ELSE distance

\* lines 30-31: if distance == 0: distance = 0.01
floor_distance(distance) ==
    IF distance = Zero THEN Lit(1, 100) ELSE distance

\* mutant: the current is not squared
joule_heat_linear(current, resistance) ==
    FMul(FMul(current, resistance), FromInt(time_interval))

\* line 34: current**2 * resistance * time_interval
joule_heat(current, resistance) ==
    FMul(FMul(FMul(current, current), resistance), FromInt(time_interval))

\* mutant: the distance multiplies instead of dividing
temp_increase_times_distance(heat_source, distance) ==
    FMul(FDiv(heat_source, FMul(FMul(FromInt(4), np_pi), k)), distance)

\* line 35: heat_source / (4 * np.pi * k * distance)
temp_increase_at(heat_source, distance) ==
    FDiv(heat_source, FMul(FMul(FMul(FromInt(4), np_pi), k), distance))

\* mutant: the wall adds its thickness to the distance
temperature_at_point_through_wall(x, y, z, enclosure_dims, wall_thickness, flow_rate, current, resistance, source_position, env_temp) ==
    LET distance0 == distance_from_source(x, y, z, source_position)
        distance == FAdd(floor_distance(distance0), wall_thickness)
        heat_source == joule_heat(current, resistance)
        temp_increase == temp_increase_at(heat_source, distance)
    IN [x |-> x, y |-> y, z |-> z,
        source_position |-> source_position, env_temp |-> env_temp,
        current |-> current, resistance |-> resistance,
        sqrt_distance |-> distance0, distance |-> distance,
        heat_source |-> heat_source, temp_increase |-> temp_increase,
        ret |-> FAdd(env_temp, temp_increase)]

\* The activation of temperature_at_point: its locals, and ret, what it
\* returns.
temperature_at_point(x, y, z, enclosure_dims, wall_thickness, flow_rate, current, resistance, source_position, env_temp) ==
    LET distance0 == distance_from_source(x, y, z, source_position)
        distance == floor_distance(distance0)
        heat_source == joule_heat(current, resistance)
        temp_increase == temp_increase_at(heat_source, distance)
    IN [x |-> x, y |-> y, z |-> z,
        source_position |-> source_position, env_temp |-> env_temp,
        current |-> current, resistance |-> resistance,
        sqrt_distance |-> distance0, distance |-> distance,
        heat_source |-> heat_source, temp_increase |-> temp_increase,
        ret |-> FAdd(env_temp, temp_increase)]

num_points == 10

\* np.linspace(0, stop, num)[idx]: step = stop / (num - 1), the samples are
\* idx * step (idx / (num - 1) * stop when step is 0), the last one is stop
linspace(stop, num, idx) ==
    LET div == FromInt(num - 1)
        step == FDiv(stop, div)
    IN IF idx = num - 1 THEN stop
       ELSE IF step = Zero THEN FMul(FDiv(FromInt(idx), div), stop)
       ELSE FMul(FromInt(idx), step)

\* lines 41-44: calculate_average_temperature is entered
enter_average(enclosure_dims, wall_thickness, flow_rate, current, resistance, source_position, env_temp, target_temp) ==
    [pc |-> "loop", enclosure_dims |-> enclosure_dims,
     wall_thickness |-> wall_thickness, flow_rate |-> flow_rate,
     current |-> current, resistance |-> resistance,
     source_position |-> source_position, env_temp |-> env_temp,
     target_temp |-> target_temp,
     i |-> 0, j |-> 0, kk |-> 0, evaluations |-> 0, call |-> <<>>,
     total_temp |-> Zero, average_temp |-> Zero, objective |-> Zero]

\* lines 45-48: one iteration of the innermost loop
loop_body(f) ==
    LET c == temperature_at_point(
                 linspace(f.enclosure_dims[1], num_points, f.i),
                 linspace(f.enclosure_dims[2], num_points, f.j),
                 linspace(f.enclosure_dims[3], num_points, f.kk),
                 f.enclosure_dims, f.wall_thickness, f.flow_rate, f.current,
                 f.resistance, f.source_position, f.env_temp)
        last == f.i = num_points - 1 /\ f.j = num_points - 1
                /\ f.kk = num_points - 1
    IN [f EXCEPT !.total_temp = FAdd(f.total_temp, c.ret),
                 !.call = <<c>>,
                 !.evaluations = f.evaluations + 1,
                 !.kk = IF f.kk = num_points - 1 THEN 0 ELSE f.kk + 1,
                 !.j = IF f.kk = num_points - 1
                       THEN (IF f.j = num_points - 1 THEN 0 ELSE f.j + 1)
                       ELSE f.j,
                 !.i = IF f.kk = num_points - 1 /\ f.j = num_points - 1
                          /\ f.i < num_points - 1
                       THEN f.i + 1 ELSE f.i,
                 !.pc = IF last THEN "sum" ELSE "loop"]

\* mutant: the sum is divided by num_points**2
average_return_squared(f) ==
    [f EXCEPT !.average_temp =
                  FDiv(f.total_temp, FromInt(num_points * num_points)),
              !.pc = "avg"]

\* lines 50-52: average_temp = total_temp / (num_points**3)
average_return(f) ==
    [f EXCEPT !.average_temp =
                  FDiv(f.total_temp,
                       FromInt(num_points * num_points * num_points)),
              !.pc = "avg"]

\* line 61: return abs(average_temp - target_temp)
objective_return(f) ==
    [f EXCEPT !.objective = FAbs(FSub(f.average_temp, f.target_temp)),
              !.pc = "done"]

\* lines 55-60: objective_function(params, *args) unpacks and calls
\* calculate_average_temperature
objective_function(params, target_temp, flow_rate, current, resistance, source_position, env_temp) ==
    enter_average(<<params[1], params[2], params[3]>>, params[4], flow_rate,
                  current, resistance, source_position, env_temp, target_temp)

\* a frame with no call in progress
NoFrame == [enter_average(<<Zero, Zero, Zero>>, Zero, Zero, Zero, Zero,
                          <<Zero, Zero, Zero>>, Zero, Zero)
            EXCEPT !.pc = "idle"]

----------------------------------------------------------------------------
(* Aday_Heat_Sink_Optimizer.py: the resistance network                     *)

\* lines 56-57: R_base = base_thickness / (thermal_conductivity * base_area)
R_base_of(base_thickness, base_length, base_width, thermal_conductivity) ==
    FDiv(base_thickness,
         FMul(thermal_conductivity, FMul(base_length, base_width)))

\* mutant: the fins and the base in series
R_total_series(num_fins, fin_resistance, R_base) ==
    FAdd(FMul(num_fins, fin_resistance), R_base)

\* line 60: R_total = 1 / (num_fins / fin_resistance + 1 / R_base)
R_total_of(num_fins, fin_resistance, R_base) ==
    FDiv(FromInt(1),
         FAdd(FDiv(num_fins, fin_resistance), FDiv(FromInt(1), R_base)))

----------------------------------------------------------------------------
(* The scripts, statement by statement                                     *)

Scripts == {"enclosure", "heat_sink"}

\* the builtins the scripts use
Builtins == {"print", "abs", "ImportError"}

\* lines 1, 2 and 4 call print in the enclosure script, fprintf in the heat
\* sink script
BannerCall(s) == IF s = "heat_sink" THEN "fprintf" ELSE "print"

BannerLine(p) == IF p = "banner1" THEN 1 ELSE IF p = "banner2" THEN 2 ELSE 4
AfterBanner(p) ==
    IF p = "banner1" THEN "banner2"
    ELSE IF p = "banner2" THEN "banner3" ELSE "import"

\* lines 10-14: the text handed to sys.exit
InstallMessage ==
    "You need the numpy and scipy libraries. To install these libraries, please enter: pip install numpy scipy"

\* an uncaught NameError: the interpreter prints the traceback and exits 1
NameError(name) == [kind |-> "Traceback", error |-> "NameError", text |-> name]
\* sys.exit(text): SystemExit with a string prints it to stderr and exits 1
SystemExit(text) == [kind |-> "SystemExit", error |-> "", text |-> text]
NoError == [kind |-> "", error |-> "", text |-> ""]

\* the names the module level binds after the imports: constants, functions
\* and the example values
Defined(s) ==
    IF s = "enclosure"
    THEN {"k", "time_interval", "temperature_at_point",
          "calculate_average_temperature", "objective_function",
          "constraint_positive", "optimize_enclosure", "target_temp",
          "flow_rate", "current", "resistance", "source_position",
          "env_temp", "initial_guess", "bounds"}
    ELSE {"A", "B", "C", "thermal_conductivity_air",
          "convection_coefficient", "fin_thermal_resistance",
          "heat_sink_thermal_resistance", "calculate_heat_sink_temperature",
          "objective_function", "optimize_heat_sink", "target_temp",
          "heat_load", "ambient_temp", "thermal_conductivity", "flow_rate",
          "air_density", "initial_guess"}

\* the example values of the enclosure script, lines 75-81
ex_target_temp == FromInt(350)
ex_flow_rate == FromInt(100)
ex_current == FromInt(40)
\* 1.68e-8 = 21 / 1250000000
ex_resistance == Lit(21, 1250000000)
ex_source_position == <<Lit(1, 2), Lit(1, 2), Lit(1, 2)>>
ex_env_temp == FromInt(298)
ex_initial_guess == <<Lit(1, 2), FromInt(1), Lit(1, 4), Lit(1, 10)>>
\* line 84: the bounds handed to minimize
ex_bounds_lo == <<Lit(1, 10), Lit(1, 10), Lit(1, 10), Lit(1, 100)>>
ex_bounds_hi == <<FromInt(1), FromInt(2), Lit(1, 2), Lit(1, 2)>>

\* the example values of the heat sink script, lines 86-92
hs_target_temp == FromInt(310)
hs_heat_load == FromInt(50)
hs_ambient_temp == FromInt(298)
hs_thermal_conductivity == FromInt(200)
hs_flow_rate == Lit(1, 100)
hs_air_density == Lit(12, 10)
hs_initial_guess == <<FromInt(10), Lit(5, 100), Lit(2, 1000), Lit(5, 1000),
                      Lit(1, 100), Lit(1, 10), Lit(1, 10)>>

\* scipy.optimize.minimize is outside the repository: it returns some
\* vector x (inside the bounds, when bounds are given) and a convergence
\* flag.
MinimizeResults(s) ==
    IF s = "enclosure"
    THEN {[x |-> x, success |-> b] :
              x \in {ex_initial_guess, ex_bounds_lo, ex_bounds_hi},
              b \in BOOLEAN}
    ELSE {[x |-> x, success |-> b] :
              x \in {hs_initial_guess,
                     [hs_initial_guess EXCEPT ![1] = FromInt(12)]},
              b \in BOOLEAN}

Raise(exc) ==
    /\ pc' = "exit"
    /\ stderr' = exc
    /\ exit_code' = 1

\* lines 1, 2, 4: the banner
Banner ==
    /\ pc \in {"banner1", "banner2", "banner3"}
    /\ IF BannerCall(script) \in bound
       THEN /\ stdout' = Append(stdout, [line |-> BannerLine(pc),
                                         text |-> "banner", fn |-> "",
                                         args |-> <<>>, value |-> <<>>])
            /\ pc' = AfterBanner(pc)
            /\ UNCHANGED <<stderr, exit_code>>
       ELSE /\ Raise(NameError(BannerCall(script)))
            /\ UNCHANGED stdout
    /\ UNCHANGED <<script, libs, bound, minimize_calls, result, frame, frame2,
                   calls, sink>>

\* lines 6-9: the try block; an ImportError goes to the except clause
Import ==
    /\ pc = "import"
    /\ IF libs THEN /\ bound' = bound \cup {"np", "minimize"}
                    /\ pc' = "defs"
               ELSE /\ pc' = "except"
                    /\ UNCHANGED bound
    /\ UNCHANGED <<script, libs, stdout, stderr, exit_code, minimize_calls,
                   result, frame, frame2, calls, sink>>

\* lines 9-14: except ImportError: sys.exit("""...""")
ImportErrorHandler ==
    /\ pc = "except"
    /\ IF "sys" \in bound THEN Raise(SystemExit(InstallMessage))
                          ELSE Raise(NameError("sys"))
    /\ UNCHANGED <<script, libs, bound, stdout, minimize_calls, result, frame,
                   frame2, calls, sink>>

\* the constants, the function definitions and the example values
Definitions ==
    /\ pc = "defs"
    /\ bound' = bound \cup Defined(script)
    /\ pc' = "optimize"
    /\ UNCHANGED <<script, libs, stdout, stderr, exit_code, minimize_calls,
                   result, frame, frame2, calls, sink>>

\* enclosure lines 68-72 and 86, heat sink lines 80-83 and 94:
\* result = optimize_...(...), which calls minimize and returns its result
Optimize ==
    /\ pc = "optimize"
    /\ IF {"minimize", "objective_function"} \subseteq bound
       THEN /\ \E r \in MinimizeResults(script) : result' = <<r>>
            /\ minimize_calls' = minimize_calls + 1
            /\ pc' = "report"
            /\ UNCHANGED <<stderr, exit_code>>
       ELSE /\ Raise(NameError("minimize"))
            /\ UNCHANGED <<result, minimize_calls>>
    /\ UNCHANGED <<script, libs, bound, stdout, frame, frame2, calls, sink>>

Printed(line, text, value) ==
    [line |-> line, text |-> text, fn |-> "", args |-> <<>>, value |-> value]

\* enclosure lines 88-89, heat sink lines 96-102: the optimal parameters
ReportParameters ==
    /\ pc = "report"
    /\ LET x == result[1].x IN
       stdout' = stdout \o
           (IF script = "enclosure"
            THEN <<Printed(88, "Optimal Dimensions (LxWxH)",
                           <<x[1], x[2], x[3]>>),
                   Printed(89, "Optimal Wall Thickness", <<x[4]>>)>>
            ELSE <<Printed(96, "Optimal Number of Fins", <<x[1]>>),
                   Printed(97, "Optimal Fin Height", <<x[2]>>),
                   Printed(98, "Optimal Fin Thickness", <<x[3]>>),
                   Printed(99, "Optimal Fin Spacing", <<x[4]>>),
                   Printed(100, "Optimal Base Thickness", <<x[5]>>),
                   Printed(101, "Optimal Base Length", <<x[6]>>),
                   Printed(102, "Optimal Base Width", <<x[7]>>)>>)
    /\ pc' = "achieved_call"
    /\ UNCHANGED <<script, libs, bound, stderr, exit_code, minimize_calls,
                   result, frame, frame2, calls, sink>>

\* enclosure line 90: calculate_average_temperature(result.x[:3],
\* result.x[3], flow_rate, current, resistance, source_position, env_temp)
\* is entered.  Heat sink line 103: calculate_heat_sink_temperature is
\* called; its value (it takes ** 0.8, ** 0.3 and tanh) is not computed
\* here, the report keeps the call.
AchievedCall ==
    /\ pc = "achieved_call"
    /\ IF script = "enclosure"
       THEN /\ frame' = enter_average(
                   <<result[1].x[1], result[1].x[2], result[1].x[3]>>,
                   result[1].x[4], ex_flow_rate, ex_current, ex_resistance,
                   ex_source_position, ex_env_temp, ex_target_temp)
            /\ pc' = "achieved_eval"
       ELSE /\ pc' = "achieved_print"
            /\ UNCHANGED frame
    /\ UNCHANGED <<script, libs, bound, stdout, stderr, exit_code,
                   minimize_calls, result, frame2, calls, sink>>

\* enclosure lines 45-48, run from line 90
AchievedLoop ==
    /\ pc = "achieved_eval"
    /\ frame.pc = "loop"
    /\ frame' = loop_body(frame)
    /\ UNCHANGED <<script, libs, pc, bound, stdout, stderr, exit_code,
                   minimize_calls, result, frame2, calls, sink>>

\* enclosure lines 50-52, run from line 90
AchievedReturn ==
    /\ pc = "achieved_eval"
    /\ frame.pc = "sum"
    /\ frame' = average_return(frame)
    /\ pc' = "achieved_print"
    /\ UNCHANGED <<script, libs, bound, stdout, stderr, exit_code,
                   minimize_calls, result, frame2, calls, sink>>

\* enclosure line 90, heat sink line 103: the achieved temperature is
\* printed, and the script ends
AchievedPrint ==
    /\ pc = "achieved_print"
    /\ stdout' = Append(stdout,
           IF script = "enclosure"
           THEN [line |-> 90, text |-> "Achieved Average Temperature",
                 fn |-> "calculate_average_temperature",
                 args |-> frame.enclosure_dims \o
                          <<frame.wall_thickness, frame.flow_rate,
                            frame.current, frame.resistance>>
                          \o frame.source_position \o <<frame.env_temp>>,
                 value |-> <<frame.average_temp>>]
           ELSE [line |-> 103, text |-> "Achieved Heat Sink Temperature",
                 fn |-> "calculate_heat_sink_temperature",
                 args |-> <<hs_heat_load, hs_ambient_temp>> \o result[1].x
                          \o <<hs_thermal_conductivity, hs_flow_rate,
                               hs_air_density>>,
                 value |-> <<>>])
    /\ pc' = "exit"
    /\ exit_code' = 0
    /\ UNCHANGED <<script, libs, bound, stderr, minimize_calls, result, frame,
                   frame2, calls, sink>>

\* no function of the harnesses below is being called
HarnessIdle ==
    /\ frame2 = NoFrame
    /\ calls = <<>>
    /\ sink = <<>>

\* a run of either script, with or without numpy and scipy installed
Init ==
    /\ script \in Scripts
    /\ libs \in BOOLEAN
    /\ pc = "banner1"
    /\ bound = Builtins
    /\ stdout = <<>>
    /\ stderr = NoError
    /\ exit_code = -1
    /\ minimize_calls = 0
    /\ result = <<>>
    /\ frame = NoFrame
    /\ HarnessIdle

Next ==
    \/ Banner
    \/ Import
    \/ ImportErrorHandler
    \/ Definitions
    \/ Optimize
    \/ ReportParameters
    \/ AchievedCall
    \/ AchievedLoop
    \/ AchievedReturn
    \/ AchievedPrint

Spec == Init /\ [][Next]_vars

----------------------------------------------------------------------------
(* The functions called on their own, on inputs from bounded sets          *)

\* no script is running: a function is called directly
RunIdle(s) ==
    /\ script = s
    /\ libs = TRUE
    /\ pc = "call"
    /\ bound = Builtins \cup {"np", "minimize"} \cup Defined(s)
    /\ stdout = <<>>
    /\ stderr = NoError
    /\ exit_code = -1
    /\ minimize_calls = 0
    /\ result = <<>>

Origin == <<Zero, Zero, Zero>>

\* objective_function(params, *args) of the enclosure script
ObjDims == {Origin, <<ex_initial_guess[1], ex_initial_guess[2],
                      ex_initial_guess[3]>>}
ObjWallThickness == {Lit(1, 10), Lit(1, 2)}
ObjFlowRate == {ex_flow_rate, Lit(1, 100)}
ObjSources == {Origin, ex_source_position}

\* two evaluations that agree on everything but wall_thickness and
\* flow_rate: frame on the example values, frame2 on any
InitObjective ==
    /\ RunIdle("enclosure")
    /\ calls = <<>>
    /\ sink = <<>>
    /\ \E d \in ObjDims, sp \in ObjSources :
       \E wt2 \in ObjWallThickness, fr2 \in ObjFlowRate :
          /\ frame = objective_function(<<d[1], d[2], d[3],
                         ex_initial_guess[4]>>, ex_target_temp, ex_flow_rate,
                         ex_current, ex_resistance, sp, ex_env_temp)
          /\ frame2 = objective_function(<<d[1], d[2], d[3], wt2>>,
                          ex_target_temp, fr2, ex_current, ex_resistance, sp,
                          ex_env_temp)

\* lines 45-48, in both evaluations
ObjectiveLoop ==
    /\ frame.pc = "loop"
    /\ frame' = loop_body(frame)
    /\ frame2' = loop_body(frame2)
    /\ UNCHANGED <<script, libs, pc, bound, stdout, stderr, exit_code,
                   minimize_calls, result, calls, sink>>

\* lines 50-52, in both evaluations
ObjectiveAverage ==
    /\ frame.pc = "sum"
    /\ frame' = average_return(frame)
    /\ frame2' = average_return(frame2)
    /\ UNCHANGED <<script, libs, pc, bound, stdout, stderr, exit_code,
                   minimize_calls, result, calls, sink>>

\* line 61, in both evaluations
ObjectiveReturn ==
    /\ frame.pc = "avg"
    /\ frame' = objective_return(frame)
    /\ frame2' = objective_return(frame2)
    /\ UNCHANGED <<script, libs, pc, bound, stdout, stderr, exit_code,
                   minimize_calls, result, calls, sink>>

NextObjective == ObjectiveLoop \/ ObjectiveAverage \/ ObjectiveReturn

SpecObjective == InitObjective /\ [][NextObjective]_vars

\* temperature_at_point on sample points near and far from the source
SamplePoints ==
    {Origin, ex_source_position,
     <<Lit(505, 1000), Lit(1, 2), Lit(1, 2)>>,
     <<Lit(55, 100), Lit(1, 2), Lit(1, 2)>>,
     <<Lit(3, 4), Lit(1, 2), Lit(1, 2)>>,
     <<FromInt(1), Lit(1, 2), Lit(1, 2)>>,
     <<Lit(5, 1000), Zero, Zero>>,
     <<FromInt(1), Zero, Zero>>,
     <<Lit(21, 16), Zero, Zero>>,
     <<Lit(10753, 8192), Zero, Zero>>}
PointSources == {Origin, ex_source_position}
PointCurrents == {Zero, ex_current}

InitPoint ==
    /\ RunIdle("enclosure")
    /\ frame = NoFrame
    /\ frame2 = NoFrame
    /\ calls = <<>>
    /\ sink = <<>>

\* lines 22-37: one call; the call before it is kept
Probe ==
    /\ \E p \in SamplePoints, sp \in PointSources, cur \in PointCurrents :
          calls' = <<temperature_at_point(p[1], p[2], p[3], <<FromInt(1),
                         FromInt(1), FromInt(1)>>, Lit(1, 10), ex_flow_rate,
                         cur, ex_resistance, sp, ex_env_temp)>>
                   \o SubSeq(calls, 1, IF Len(calls) > 0 THEN 1 ELSE 0)
    /\ UNCHANGED <<script, libs, pc, bound, stdout, stderr, exit_code,
                   minimize_calls, result, frame, frame2, sink>>

NextPoint == Probe

SpecPoint == InitPoint /\ [][NextPoint]_vars

\* the resistance network of the heat sink, line 60, on several fin counts
SinkNumFins == {FromInt(1), FromInt(2), FromInt(10), Lit(21, 2), FromInt(11),
                FromInt(12)}
SinkFinResistance == {Lit(1, 2), FromInt(2), FromInt(1000000000)}
\* base thickness, length and width: the initial guess, and a thicker base
SinkBase == {<<Lit(1, 100), Lit(1, 10), Lit(1, 10)>>,
             <<Lit(5, 100), Lit(1, 10), Lit(2, 10)>>}

InitSink ==
    /\ RunIdle("heat_sink")
    /\ frame = NoFrame
    /\ frame2 = NoFrame
    /\ calls = <<>>
    /\ sink = <<>>

\* lines 56-60: one evaluation; the one before it is kept
EvalSink ==
    /\ \E n \in SinkNumFins, rf \in SinkFinResistance, b \in SinkBase :
          LET R_base == R_base_of(b[1], b[2], b[3], hs_thermal_conductivity)
          IN sink' = <<[num_fins |-> n, fin_resistance |-> rf,
                        R_base |-> R_base,
                        R_total |-> R_total_of(n, rf, R_base)]>>
                     \o SubSeq(sink, 1, IF Len(sink) > 0 THEN 1 ELSE 0)
    /\ UNCHANGED <<script, libs, pc, bound, stdout, stderr, exit_code,
                   minimize_calls, result, frame, frame2, calls>>

NextSink == EvalSink

SpecSink == InitSink /\ [][NextSink]_vars

----------------------------------------------------------------------------
(* Claims                                                                  *)

ReportLines == {i \in 1..Len(stdout) : stdout[i].text # "banner"}

\* C1: when the numpy/scipy import fails, the script ends at once with the
\* fixed install message and a non-zero exit status, and neither the
\* optimizer call nor the report runs.
C1_InstallMessageOnImportFailure ==
    (pc = "exit" /\ ~libs) =>
        /\ stderr = SystemExit(InstallMessage)
        /\ exit_code # 0
        /\ minimize_calls = 0
        /\ ReportLines = {}

\* C2: a run of the heat sink script with the libraries available ends with
\* the final report: minimize was called, the seven optimal values were
\* printed, and the achieved temperature is calculate_heat_sink_temperature
\* at result.x, unpacked in the order of the objective function.
C2_HeatSinkReportReached ==
    (script = "heat_sink" /\ libs /\ pc = "exit") =>
        /\ minimize_calls = 1
        /\ Len(result) = 1
        /\ Cardinality(ReportLines) = 8
        /\ \A i \in 1..7 : \E n \in ReportLines :
               stdout[n].line = 95 + i /\ stdout[n].value = <<result[1].x[i]>>
        /\ stdout[Len(stdout)].fn = "calculate_heat_sink_temperature"
        /\ stdout[Len(stdout)].args =
               <<hs_heat_load, hs_ambient_temp>> \o result[1].x
               \o <<hs_thermal_conductivity, hs_flow_rate, hs_air_density>>

\* C10: in every run of either script (with the libraries available)
\* minimize is called exactly once and never again, and whatever its
\* convergence flag the run ends without an error exit, having printed the
\* optimal parameters and the achieved temperature computed at result.x.
C10_MinimizeOnceThenReport ==
    /\ minimize_calls <= 1
    /\ (libs /\ pc = "exit") =>
        /\ minimize_calls = 1
        /\ Len(result) = 1
        /\ exit_code = 0
        /\ stderr = NoError
        /\ ReportLines # {}
        /\ stdout[Len(stdout)].fn \in {"calculate_average_temperature",
                                       "calculate_heat_sink_temperature"}
        /\ \A i \in 1..Len(result[1].x) :
               \E j \in 1..Len(stdout[Len(stdout)].args) :
                   stdout[Len(stdout)].args[j] = result[1].x[i]

SameSetting(a, b) ==
    /\ a.source_position = b.source_position
    /\ a.env_temp = b.env_temp
    /\ a.current = b.current
    /\ a.resistance = b.resistance

CallPairs == {<<calls[i], calls[j]>> : i, j \in 1..Len(calls)}
AtSource(c) == <<c.x, c.y, c.z>> = c.source_position
IsExample(c) == c.current = ex_current /\ c.resistance = ex_resistance

\* C3 (as claimed): heat_source is current^2 * resistance * 3600, and for
\* current = 40, resistance = 1.68e-8 it is 96.77 J to two decimals.
C3_HeatSourceAsClaimed ==
    \A c \in {calls[i] : i \in 1..Len(calls)} :
        /\ c.heat_source =
               FMul(FMul(FMul(c.current, c.current), c.resistance),
                    FromInt(3600))
        /\ IsExample(c) =>
               /\ FLe(Lit(96765, 1000), c.heat_source)
               /\ FLe(c.heat_source, Lit(96775, 1000))

\* C3 (amended): heat_source is current^2 * resistance * 3600, the same on
\* every evaluation, and for current = 40, resistance = 1.68e-8 it is
\* 0.09677 J (0.096768 J up to rounding), not 96.77 J.
C3_HeatSource ==
    /\ \A c \in {calls[i] : i \in 1..Len(calls)} :
        /\ c.heat_source =
               FMul(FMul(FMul(c.current, c.current), c.resistance),
                    FromInt(3600))
        /\ IsExample(c) =>
               /\ FLe(Lit(96748, 1000000), c.heat_source)
               /\ FLe(c.heat_source, Lit(96788, 1000000))
    /\ \A p \in CallPairs :
           (p[1].current = p[2].current /\ p[1].resistance = p[2].resistance)
               => p[1].heat_source = p[2].heat_source

C3_Witness ==
    /\ Len(calls) = 2
    /\ IsExample(calls[1]) /\ IsExample(calls[2])
    /\ <<calls[1].x, calls[1].y, calls[1].z>>
           # <<calls[2].x, calls[2].y, calls[2].z>>

\* C4: called with the sample point equal to the source position,
\* temperature_at_point returns a finite value (the division is not by
\* zero), namely env_temp + heat_source / (4 pi * 0.02 * 0.01).
C4_FloorAtSource ==
    \A c \in {calls[i] : i \in 1..Len(calls)} :
        AtSource(c) =>
            /\ c.ret.cls = "fin"
            /\ c.ret = FAdd(c.env_temp,
                            FDiv(c.heat_source,
                                 FMul(FMul(FMul(FromInt(4), np_pi),
                                           Lit(2, 100)), Lit(1, 100))))

C4_Witness ==
    \E i \in 1..Len(calls) :
        /\ AtSource(calls[i])
        /\ calls[i].source_position # Origin
        /\ calls[i].current # Zero

\* C7 (as claimed): of two sample points at distances 0 < d1 < d2 from the
\* source, all else equal (and the heat source positive), the farther one
\* gets a strictly smaller temperature increase.
C7_StrictlyDecreasing ==
    \A p \in CallPairs :
        (/\ SameSetting(p[1], p[2])
         /\ FLt(Zero, p[1].heat_source)
         /\ FLt(Zero, p[1].sqrt_distance)
         /\ FLt(p[1].sqrt_distance, p[2].sqrt_distance))
        => FLt(p[2].temp_increase, p[1].temp_increase)

\* C7 (amended): of two sample points at computed distances 0 < d1 < d2
\* from the source, all else equal, the farther one never gets a larger
\* temperature increase, nor a larger temperature (the two can be equal:
\* the quotient is rounded).
C7_NeverIncreasing ==
    \A p \in CallPairs :
        (/\ SameSetting(p[1], p[2])
         /\ FLt(Zero, p[1].sqrt_distance)
         /\ FLt(p[1].sqrt_distance, p[2].sqrt_distance))
        => /\ FLe(p[2].temp_increase, p[1].temp_increase)
           /\ FLe(p[2].ret, p[1].ret)

C7_Witness ==
    /\ Len(calls) = 2
    /\ SameSetting(calls[1], calls[2])
    /\ FLt(Zero, calls[1].sqrt_distance)
    /\ FLt(calls[1].sqrt_distance, calls[2].sqrt_distance)
    /\ FLt(calls[2].temp_increase, calls[1].temp_increase)

\* C8 (as claimed): with a positive heat source, no sample point at a
\* distance d > 0 from the source gets a higher temperature than the sample
\* point at the source.
C8_SourceIsMaximum ==
    \A p \in CallPairs :
        (/\ SameSetting(p[1], p[2])
         /\ FLt(Zero, p[1].heat_source)
         /\ AtSource(p[1])
         /\ FLt(Zero, p[2].sqrt_distance))
        => FLe(p[2].ret, p[1].ret)

\* C8 (amended): with a positive heat source, no sample point at a distance
\* d >= 0.01 from the source gets a higher temperature than the sample
\* point at the source; a point at 0 < d < 0.01 gets at least the
\* temperature of the source.
C8_MaximumBeyondFloor ==
    \A p \in CallPairs :
        (/\ SameSetting(p[1], p[2])
         /\ FLt(Zero, p[1].heat_source)
         /\ AtSource(p[1])
         /\ FLt(Zero, p[2].sqrt_distance))
        => IF FLe(Lit(1, 100), p[2].sqrt_distance)
           THEN FLe(p[2].ret, p[1].ret)
           ELSE FLe(p[1].ret, p[2].ret)

C8_Witness ==
    /\ Len(calls) = 2
    /\ SameSetting(calls[1], calls[2])
    /\ FLt(Zero, calls[1].heat_source)
    /\ AtSource(calls[1])
    /\ FLe(Lit(1, 100), calls[2].sqrt_distance)
    /\ FLt(calls[2].sqrt_distance, Lit(1, 10))
    /\ FLt(calls[2].ret, calls[1].ret)

\* the value temperature_at_point returns at the source
FlooredValue(f) ==
    FAdd(f.env_temp,
         FDiv(joule_heat(f.current, f.resistance),
              FMul(FMul(FMul(FromInt(4), np_pi), k), Lit(1, 100))))

\* |a - v| <= n / (2^Prec - n) * |v|: a is v up to n roundings
WithinRoundings(a, v, n) ==
    /\ a.cls = "fin" /\ v.cls = "fin"
    /\ LET lo == IF a.e < v.e THEN a.e ELSE v.e
           da == a.e - lo
           dv == v.e - lo
       IN /\ da <= 2 /\ dv <= 2
          /\ Mag(a.m * 2^da - v.m * 2^dv)
                 <= (n * Mag(v.m) * 2^dv) \div (2^Prec - n)

Degenerate(f) == f.enclosure_dims = Origin

\* C5 (as claimed): with length = width = height = 0 the 1000 sample points
\* are all the origin; with the source at the origin too every sample takes
\* the floor and the average is exactly the floored value of one point.
C5_AverageExactlyFloored ==
    Degenerate(frame) =>
        /\ \A i \in 1..Len(frame.call) :
               <<frame.call[i].x, frame.call[i].y, frame.call[i].z>> = Origin
        /\ frame.pc \in {"sum", "avg", "done"} => frame.evaluations = 1000
        /\ frame.source_position = Origin =>
            /\ \A i \in 1..Len(frame.call) :
                   /\ frame.call[i].sqrt_distance = Zero
                   /\ frame.call[i].distance = Lit(1, 100)
                   /\ frame.call[i].ret = FlooredValue(frame)
            /\ frame.pc \in {"avg", "done"} =>
                   frame.average_temp = FlooredValue(frame)

\* C5 (amended): with length = width = height = 0 the 1000 sample points
\* are all the origin; with the source at the origin too every sample takes
\* the floor and returns the floored value, and the average is that value
\* up to the rounding of the 1000 additions and the division (a relative
\* error of at most 1000 / (2^p - 1000) for p significand bits), not exactly.
C5_AverageFlooredUpToRounding ==
    Degenerate(frame) =>
        /\ \A i \in 1..Len(frame.call) :
               <<frame.call[i].x, frame.call[i].y, frame.call[i].z>> = Origin
        /\ frame.pc \in {"sum", "avg", "done"} => frame.evaluations = 1000
        /\ frame.source_position = Origin =>
            /\ \A i \in 1..Len(frame.call) :
                   /\ frame.call[i].sqrt_distance = Zero
                   /\ frame.call[i].distance = Lit(1, 100)
                   /\ frame.call[i].ret = FlooredValue(frame)
            /\ frame.pc \in {"avg", "done"} =>
                   WithinRoundings(frame.average_temp, FlooredValue(frame),
                                   1000)

C5_Witness ==
    /\ Degenerate(frame)
    /\ frame.source_position = Origin
    /\ frame.pc = "done"
    /\ frame.evaluations = 1000

\* C9: two evaluations of objective_function that agree on the enclosure
\* dimensions, current, resistance, source position, env_temp and
\* target_temp agree on the running sum, on the average temperature and on
\* the value returned, whatever their wall_thickness and flow_rate.
C9_WallThicknessAndFlowRateUnused ==
    (/\ frame.pc # "idle"
     /\ frame.enclosure_dims = frame2.enclosure_dims
     /\ frame.current = frame2.current
     /\ frame.resistance = frame2.resistance
     /\ frame.source_position = frame2.source_position
     /\ frame.env_temp = frame2.env_temp
     /\ frame.target_temp = frame2.target_temp)
    => /\ frame.pc = frame2.pc
       /\ frame.total_temp = frame2.total_temp
       /\ frame.average_temp = frame2.average_temp
       /\ frame.objective = frame2.objective

C9_Witness ==
    /\ frame.pc = "done"
    /\ frame2.pc = "done"
    /\ frame.wall_thickness # frame2.wall_thickness
    /\ frame.flow_rate # frame2.flow_rate
    /\ frame.objective # Zero

SinkPairs == {<<sink[i], sink[j]>> : i, j \in 1..Len(sink)}

\* C6 (as claimed): with R_fin and R_base fixed and positive, R_total
\* strictly decreases as num_fins increases.
C6_StrictlyDecreasing ==
    \A p \in SinkPairs :
        (/\ p[1].fin_resistance = p[2].fin_resistance
         /\ p[1].R_base = p[2].R_base
         /\ FLt(p[1].num_fins, p[2].num_fins))
        => FLt(p[2].R_total, p[1].R_total)

\* C6 (amended): with R_fin and R_base fixed and positive, R_total never
\* increases as num_fins increases (it can stay the same: the sum
\* num_fins / R_fin + 1 / R_base is rounded).
C6_NeverIncreasing ==
    \A p \in SinkPairs :
        (/\ p[1].fin_resistance = p[2].fin_resistance
         /\ p[1].R_base = p[2].R_base
         /\ FLt(p[1].num_fins, p[2].num_fins))
        => /\ FLe(p[2].R_total, p[1].R_total)
           /\ FLt(Zero, p[2].R_total)

C6_Witness ==
    /\ Len(sink) = 2
    /\ sink[1].fin_resistance = sink[2].fin_resistance
    /\ sink[1].R_base = sink[2].R_base
    /\ FLt(sink[1].num_fins, sink[2].num_fins)
    /\ FLt(sink[2].R_total, sink[1].R_total)

====
